---- MODULE Spec2Model ----
(***************************************************************************)
(* A model of the array_matrix crate: the three matrix implementations     *)
(* (the type generated by impl_matrix!, NonMacroMatrix and BasicMatrix),   *)
(* their indexing, swap, transpose, transpose_mut and arithmetic operators.*)
(*                                                                         *)
(* A matrix value is a record [kind, row, col, data]:                      *)
(*   kind = "macro"    the struct generated by impl_matrix!, row = $row,   *)
(*                     col = $col, data = the array self.0                 *)
(*   kind = "nonmacro" NonMacroMatrix, data = the array of 9 elements      *)
(*   kind = "basic"    BasicMatrix, row = row_len, data = inner            *)
(* Flat offsets are zero-based as in the source; data is a TLA+ sequence,  *)
(* so offset k is data[k + 1].  The macro type and BasicMatrix are taken   *)
(* at a signed integer element type of ElemBits bits, NonMacroMatrix at    *)
(* f32, whose values stay integers that f32 represents exactly.            *)
(* A call ends "ok" or in a panic; a panic keeps every write made before.  *)
(***************************************************************************)
EXTENDS Integers, Sequences, FiniteSets, TLC

VARIABLES
    m,       \* the matrix the calls are made on
    orig,    \* m as constructed
    checks,  \* the build's overflow-checks setting (on in debug, off in release)
    calls,   \* the number of calls made
    pre,     \* m before the last call
    op,      \* the last call
    args,    \* its arguments
    out,     \* "ok", or "panic"
    ret,     \* the matrix it returned
    val,     \* the element it returned
    same,    \* the boolean it returned
    reads,   \* the operand elements it read
    trail    \* transpose_mut: the offsets the iterator yielded, the swaps made

vars == <<m, orig, checks, calls, pre, op, args, out, ret, val, same, reads, trail>>

\* Largest $row / $col (and row_len / column_len) a constructed matrix has.
MaxDim == 3

\* The largest number of calls in a sequence.
MaxCalls == 2

\* NonMacroMatrix::row() and the length of its array.
NonMacroRow == 3
NonMacroLen == 9

\* The width of the integer element type.
ElemBits == 8

ElemMax == 2 ^ (ElemBits - 1) - 1

ElemMin == -ElemMax - 1

NoMatrix == [kind |-> "none", row |-> 0, col |-> 0, data |-> <<>>]

NoArgs ==
    [a |-> <<0, 0>>, b |-> <<0, 0>>, v |-> 0, other |-> NoMatrix,
     call |-> "none", scalar |-> FALSE]

NoTrail == [seen |-> <<>>, pairs |-> <<>>]

----------------------------------------------------------------------------
(* Shape queries *)

\* row() / row_len()
Row(x) == IF x.kind = "nonmacro" THEN NonMacroRow ELSE x.row

\* column() / column_len(): $col in the macro, len / row() elsewhere
Column(x) == IF x.kind = "macro" THEN x.col ELSE Len(x.data) \div Row(x)

\* size()
Size(x) == <<Row(x), Column(x)>>

\* Element at zero-based flat offset k of a sequence.
At(d, k) == d[k + 1]

\* slice[k] = v
Put(d, k, v) == [d EXCEPT ![k + 1] = v]

Zeros(n) == [k \in 1..n |-> 0]

\* The receiver-typed blank value the source starts a result from:
\* $st([0; $row * $col]), NonMacroMatrix([0.; 9]), BasicMatrix::new(row_len).
Blank(x) ==
    IF x.kind = "basic"
    THEN [kind |-> "basic", row |-> Row(x), col |-> 0, data |-> <<>>]
    ELSE [x EXCEPT !.data = Zeros(Len(x.data))]

----------------------------------------------------------------------------
(* Index / IndexMut *)

\* InBounds with the check made on the flat offset only
InBoundsFlat(x, i, j) == i * Column(x) + j < Len(x.data)

\* the assertion of index() and index_mut()
InBounds(x, i, j) == i < Row(x) /\ j < Column(x)

\* index(): <<element>>, or <<>> when the call panics
IndexGet(x, i, j) ==
    IF ~InBounds(x, i, j) THEN <<>>
    ELSE IF i * Column(x) + j >= Len(x.data) THEN <<>>
    ELSE <<At(x.data, i * Column(x) + j)>>

\* index_mut() with the offset taken as i * row_len + j
IndexSetRowStride(x, i, j, v) ==
    IF ~InBounds(x, i, j) THEN <<>>
    ELSE IF i * Row(x) + j >= Len(x.data) THEN <<>>
    ELSE <<[x EXCEPT !.data = Put(x.data, i * Row(x) + j, v)]>>

\* index_mut() followed by the store: <<matrix after>>, or <<>> on panic
IndexSet(x, i, j, v) ==
    IF ~InBounds(x, i, j) THEN <<>>
    ELSE IF i * Column(x) + j >= Len(x.data) THEN <<>>
    ELSE <<[x EXCEPT !.data = Put(x.data, i * Column(x) + j, v)]>>

----------------------------------------------------------------------------
(* swap *)

\* slice::swap(a, b): <<data after>>, or <<>> when an offset is out of range
SliceSwap(d, a, b) ==
    IF a >= Len(d) \/ b >= Len(d) THEN <<>>
    ELSE <<[k \in 1..Len(d) |->
              IF k = a + 1 THEN d[b + 1] ELSE IF k = b + 1 THEN d[a + 1] ELSE d[k]]>>

SwapOffsets(x, a, b) == <<a[1] * Column(x) + a[2], b[1] * Column(x) + b[2]>>

\* swap((a_i, a_j), (b_i, b_j))
Swap(x, a, b) ==
    LET o == SwapOffsets(x, a, b)
        s == SliceSwap(x.data, o[1], o[2])
    IN  IF s = <<>> THEN [out |-> "panic", m |-> x]
        ELSE [out |-> "ok", m |-> [x EXCEPT !.data = s[1]]]

----------------------------------------------------------------------------
(* transpose *)

\* The loop of transpose() from flat offset p on; t is trans so far.
RECURSIVE TransposeLoop(_, _, _)
TransposeLoop(x, t, p) ==
    IF p >= Len(x.data) THEN [out |-> "ok", ret |-> t]
    ELSE LET r == p \div Column(x)
             c == p % Column(x)
             e == IndexGet(x, r, c)
         IN  IF e = <<>> THEN [out |-> "panic", ret |-> NoMatrix]
             ELSE LET s == IndexSet(t, c, r, e[1])
                  IN  IF s = <<>> THEN [out |-> "panic", ret |-> NoMatrix]
                      ELSE TransposeLoop(x, s[1], p + 1)

Transpose(x) == TransposeLoop(x, Blank(x), 0)

----------------------------------------------------------------------------
(* transpose_mut *)

\* The loop of transpose_mut(): p is the next flat offset the positions
\* iterator yields, d the storage so far, t the offsets yielded and the
\* pairs of offsets swapped so far.  rows - r - 2 is a usize: a negative
\* difference is an arithmetic fault.
RECURSIVE TransposeMutLoop(_, _, _, _)
TransposeMutLoop(x, d, p, t) ==
    IF p >= Len(d) THEN [out |-> "ok", m |-> [x EXCEPT !.data = d], trail |-> t]
    ELSE LET rows == Row(x)
             cols == Column(x)
             r == p \div cols
             c == p % cols
             u == [t EXCEPT !.seen = Append(@, p)]
         IN  IF r = c
             THEN IF r < rows - 1
                  THEN IF rows - r - 2 < 0
                       THEN [out |-> "panic", m |-> [x EXCEPT !.data = d], trail |-> u]
                       ELSE TransposeMutLoop(x, d, p + 1 + (rows - r - 2) + 1, u)
                  ELSE TransposeMutLoop(x, d, p + 1, u)
             ELSE LET s == SliceSwap(d, r * cols + c, c * rows + r)
                  IN  IF s = <<>>
                      THEN [out |-> "panic", m |-> [x EXCEPT !.data = d], trail |-> u]
                      ELSE TransposeMutLoop(x, s[1], p + 1,
                               [u EXCEPT !.pairs = Append(@, <<r * cols + c, c * rows + r>>)])

\* transpose_mut without the skip on the diagonal: every position p whose
\* row differs from its column is swapped
RECURSIVE TransposeMutNoSkipLoop(_, _, _, _)
TransposeMutNoSkipLoop(x, d, p, t) ==
    IF p >= Len(d) THEN [out |-> "ok", m |-> [x EXCEPT !.data = d], trail |-> t]
    ELSE LET r == p \div Column(x)
             c == p % Column(x)
             s == SliceSwap(d, r * Column(x) + c, c * Row(x) + r)
             u == [t EXCEPT !.seen = Append(@, p)]
         IN  IF r = c THEN TransposeMutNoSkipLoop(x, d, p + 1, u)
             ELSE IF s = <<>>
             THEN [out |-> "panic", m |-> [x EXCEPT !.data = d], trail |-> u]
             ELSE TransposeMutNoSkipLoop(x, s[1], p + 1,
                      [u EXCEPT !.pairs = Append(@, <<r * Column(x) + c, c * Row(x) + r>>)])

TransposeMutNoSkip(x) == TransposeMutNoSkipLoop(x, x.data, 0, NoTrail)

\* transpose_mut with the skip taken on the last row too
RECURSIVE TransposeMutSkipLastLoop(_, _, _, _)
TransposeMutSkipLastLoop(x, d, p, t) ==
    IF p >= Len(d) THEN [out |-> "ok", m |-> [x EXCEPT !.data = d], trail |-> t]
    ELSE LET rows == Row(x)
             cols == Column(x)
             r == p \div cols
             c == p % cols
             u == [t EXCEPT !.seen = Append(@, p)]
         IN  IF r = c
             THEN IF rows - r - 2 < 0
                  THEN [out |-> "panic", m |-> [x EXCEPT !.data = d], trail |-> u]
                  ELSE TransposeMutSkipLastLoop(x, d, p + 1 + (rows - r - 2) + 1, u)
             ELSE LET s == SliceSwap(d, r * cols + c, c * rows + r)
                  IN  IF s = <<>>
                      THEN [out |-> "panic", m |-> [x EXCEPT !.data = d], trail |-> u]
                      ELSE TransposeMutSkipLastLoop(x, s[1], p + 1,
                               [u EXCEPT !.pairs = Append(@, <<r * cols + c, c * rows + r>>)])

TransposeMutSkipLast(x) == TransposeMutSkipLastLoop(x, x.data, 0, NoTrail)

TransposeMut(x) == TransposeMutLoop(x, x.data, 0, NoTrail)

----------------------------------------------------------------------------
(* equality *)

\* eq() comparing the element sequences alone
EqData(x, y) == x.data = y.data

\* PartialEq::eq: the macro type and NonMacroMatrix compare self.0 with
\* other.0; BasicMatrix derives PartialEq, which compares inner and row_len
Eq(x, y) ==
    IF x.kind = "basic" THEN x.data = y.data /\ x.row = y.row
    ELSE x.data = y.data

----------------------------------------------------------------------------
(* identity *)

\* for i in 0..row { m[(i, i)] = 1 }
RECURSIVE IdentityLoop(_, _)
IdentityLoop(t, i) ==
    IF i >= Row(t) THEN [out |-> "ok", ret |-> t]
    ELSE LET s == IndexSet(t, i, i, 1)
         IN  IF s = <<>> THEN [out |-> "panic", ret |-> NoMatrix]
             ELSE IdentityLoop(s[1], i + 1)

\* identity() of the receiver's type
Identity(x) == IdentityLoop(Blank(x), 0)

----------------------------------------------------------------------------
(* element arithmetic *)

Abs(a) == IF a < 0 THEN -a ELSE a

\* integer division of the element type: truncates toward zero
TruncDiv(a, b) ==
    IF (a >= 0) = (b > 0) THEN Abs(a) \div Abs(b) ELSE -(Abs(a) \div Abs(b))

\* the element type of each implementation
ElemType(kind) == IF kind = "nonmacro" THEN "float" ELSE "int"

\* v as the integer type holds it after a wrapping operation
Wrap(v) == ((v - ElemMin) % (2 ^ ElemBits)) + ElemMin

\* the result v of +, -, * in the element type t: an integer result out of
\* range panics with overflow checks on and wraps with them off
Arith(t, v) ==
    IF t = "float" \/ (ElemMin <= v /\ v <= ElemMax) THEN <<v>>
    ELSE IF checks THEN <<>> ELSE <<Wrap(v)>>

\* a (+) b of the element type: <<result>>, or <<>> when the operation faults.
\* Integer division panics on a zero divisor and on ElemMin / -1.
Elem(t, o, a, b) ==
    CASE o = "add" -> Arith(t, a + b)
      [] o = "sub" -> Arith(t, a - b)
      [] o = "mul" -> Arith(t, a * b)
      [] o = "div" -> IF b = 0 \/ (a = ElemMin /\ b = -1) THEN <<>>
                      ELSE <<TruncDiv(a, b)>>

\* the scalar `other` as seen by the element loop at every offset
Broadcast(s, n) == [k \in 1..n |-> s]

\* for i in 0..acc.len() { acc[i] = lhs[i] (+) rhs[i] }, from offset i on.
\* A panic leaves acc with the elements already stored.
RECURSIVE ElementLoop(_, _, _, _, _, _)
ElementLoop(t, o, lhs, rhs, acc, i) ==
    IF i >= Len(acc) THEN [out |-> "ok", data |-> acc, done |-> i]
    ELSE IF i >= Len(lhs) \/ i >= Len(rhs)
    THEN [out |-> "panic", data |-> acc, done |-> i]
    ELSE LET e == Elem(t, o, At(lhs, i), At(rhs, i))
         IN  IF e = <<>> THEN [out |-> "panic", data |-> acc, done |-> i]
             ELSE ElementLoop(t, o, lhs, rhs, Put(acc, i, e[1]), i + 1)

\* The element operator each implementation applies in each compound
\* assignment; NonMacroMatrix::add_assign(f32) applies -=.
AssignOperatorOf(kind, call, scalar) ==
    IF kind = "nonmacro" /\ call = "add" /\ scalar THEN "sub" ELSE call

\* Binary with the right operand's element on the left of the operator
BinaryReversed(x, call, rhs) ==
    LET l == ElementLoop(ElemType(x.kind), call, rhs, x.data,
                         Zeros(Len(x.data)), 0)
    IN  IF l.out = "ok"
        THEN [out |-> "ok", ret |-> [x EXCEPT !.data = l.data], done |-> l.done]
        ELSE [out |-> "panic", ret |-> NoMatrix, done |-> l.done]

\* Add / Sub (matrix operand) and Add / Sub / Mul / Div (scalar operand) of
\* the macro type and NonMacroMatrix: a fresh array filled by the loop.
Binary(x, call, rhs) ==
    LET l == ElementLoop(ElemType(x.kind), call, x.data, rhs,
                         Zeros(Len(x.data)), 0)
    IN  IF l.out = "ok"
        THEN [out |-> "ok", ret |-> [x EXCEPT !.data = l.data], done |-> l.done]
        ELSE [out |-> "panic", ret |-> NoMatrix, done |-> l.done]

\* AddAssign / SubAssign / MulAssign / DivAssign of the macro type and
\* NonMacroMatrix: the loop stores into self.0.
Assign(x, call, rhs, scalar) ==
    LET l == ElementLoop(ElemType(x.kind), AssignOperatorOf(x.kind, call, scalar),
                         x.data, rhs, x.data, 0)
    IN  [out |-> l.out, m |-> [x EXCEPT !.data = l.data], done |-> l.done]

\* BasicMatrix::add: self.inner.iter().enumerate().map(|(i, lhs)| rhs.inner[i] + *lhs)
RECURSIVE BasicAddLoop(_, _, _, _)
BasicAddLoop(lhs, rhs, acc, i) ==
    IF i >= Len(lhs) THEN [out |-> "ok", data |-> acc, done |-> i]
    ELSE IF i >= Len(rhs) THEN [out |-> "panic", data |-> acc, done |-> i]
    ELSE LET e == Elem("int", "add", At(rhs, i), At(lhs, i))
         IN  IF e = <<>> THEN [out |-> "panic", data |-> acc, done |-> i]
             ELSE BasicAddLoop(lhs, rhs, Append(acc, e[1]), i + 1)

BasicAdd(x, y) ==
    LET l == BasicAddLoop(x.data, y.data, <<>>, 0)
    IN  IF l.out = "ok"
        THEN [out |-> "ok", done |-> l.done,
              ret |-> [kind |-> "basic", row |-> Row(x), col |-> 0, data |-> l.data]]
        ELSE [out |-> "panic", ret |-> NoMatrix, done |-> l.done]

\* add_assign(rhs: T) storing row_len() + 1 as the new value's row_len
BasicAddAssignRowLen(x, s) ==
    LET l == BasicAddLoop(x.data, Broadcast(s, Len(x.data)), <<>>, 0)
    IN  IF l.out = "ok"
        THEN [out |-> "ok", done |-> l.done,
              m |-> [kind |-> "basic", row |-> Row(x) + 1, col |-> 0, data |-> l.data]]
        ELSE [out |-> "panic", m |-> x, done |-> l.done]

\* BasicMatrix::add_assign(rhs: T): *self = Self { inner: map(rhs + *lhs), row_len }
BasicAddAssign(x, s) ==
    LET l == BasicAddLoop(x.data, Broadcast(s, Len(x.data)), <<>>, 0)
    IN  IF l.out = "ok"
        THEN [out |-> "ok", done |-> l.done,
              m |-> [kind |-> "basic", row |-> Row(x), col |-> 0, data |-> l.data]]
        ELSE [out |-> "panic", m |-> x, done |-> l.done]

----------------------------------------------------------------------------
(* matrix multiply *)

\* for k in k..other.row() { sum += self[(i, k)] * other[(k, j)] }
RECURSIVE DotLoop(_, _, _, _, _, _, _)
DotLoop(x, y, i, j, k, sum, rd) ==
    IF k >= Row(y) THEN [out |-> "ok", sum |-> sum, reads |-> rd]
    ELSE LET a == IndexGet(x, i, k)
         IN  IF a = <<>> THEN [out |-> "panic", sum |-> sum, reads |-> rd]
             ELSE LET b == IndexGet(y, k, j)
                      q == IF b = <<>> THEN <<>>
                           ELSE Elem(ElemType(x.kind), "mul", a[1], b[1])
                      e == IF q = <<>> THEN <<>>
                           ELSE Elem(ElemType(x.kind), "add", sum, q[1])
                  IN  IF b = <<>>
                      THEN [out |-> "panic", sum |-> sum, reads |-> rd + 1]
                      ELSE IF e = <<>>
                      THEN [out |-> "panic", sum |-> sum, reads |-> rd + 2]
                      ELSE DotLoop(x, y, i, j, k + 1, e[1], rd + 2)

\* Dot with the first term left out of the sum
DotSkipFirst(x, y, i, j, rd) == DotLoop(x, y, i, j, 1, 0, rd)

\* The sum of one position: the macro starts from self[(i, 0)] * other[(0, j)]
\* and runs k over 1..other.row(); NonMacroMatrix starts from 0 and runs k
\* over 0..other.row().
Dot(x, y, i, j, rd) ==
    IF x.kind = "nonmacro" THEN DotLoop(x, y, i, j, 0, 0, rd)
    ELSE LET a == IndexGet(x, i, 0)
         IN  IF a = <<>> THEN [out |-> "panic", sum |-> 0, reads |-> rd]
             ELSE LET b == IndexGet(y, 0, j)
                      q == IF b = <<>> THEN <<>>
                           ELSE Elem(ElemType(x.kind), "mul", a[1], b[1])
                  IN  IF b = <<>> THEN [out |-> "panic", sum |-> 0, reads |-> rd + 1]
                      ELSE IF q = <<>> THEN [out |-> "panic", sum |-> 0, reads |-> rd + 2]
                      ELSE DotLoop(x, y, i, j, 1, q[1], rd + 2)

\* The positions loop of mul(), from flat offset p of result on.
RECURSIVE MulLoop(_, _, _, _, _)
MulLoop(x, y, res, p, rd) ==
    IF p >= Len(res.data) THEN [out |-> "ok", ret |-> res, reads |-> rd]
    ELSE LET i == p \div Column(x)
             j == p % Column(x)
             d == Dot(x, y, i, j, rd)
         IN  IF d.out = "panic"
             THEN [out |-> "panic", ret |-> NoMatrix, reads |-> d.reads]
             ELSE LET s == IndexSet(res, i, j, d.sum)
                  IN  IF s = <<>>
                      THEN [out |-> "panic", ret |-> NoMatrix, reads |-> d.reads]
                      ELSE MulLoop(x, y, s[1], p + 1, d.reads)

\* MulPrecondition on the inner dimensions of the product
MulPreconditionInner(x, y) == Column(x) = Row(y)

\* mul() without the assertion on the operands' shapes
MulPreconditionNone(x, y) == TRUE

\* assert_eq!(self.row(), other.column())
MulPrecondition(x, y) == Row(x) = Column(y)

\* Mul<T>::mul(self, other)
Mul(x, y) ==
    IF ~MulPrecondition(x, y) THEN [out |-> "panic", ret |-> NoMatrix, reads |-> 0]
    ELSE MulLoop(x, y, Blank(x), 0, 0)

----------------------------------------------------------------------------
(* Construction *)

Dims == 1..MaxDim

\* the array [s, s + 1, ...] of n elements
Iota(n, s) == [k \in 1..n |-> s + k - 1]

Starts == {0, 1}

\* $st(array) / from_array(array)
MacroMatrices ==
    {[kind |-> "macro", row |-> r, col |-> c, data |-> Iota(r * c, s)] :
        r \in Dims, c \in Dims, s \in Starts}

\* NonMacroMatrix(array)
NonMacroMatrices ==
    {[kind |-> "nonmacro", row |-> NonMacroRow, col |-> 0, data |-> Iota(NonMacroLen, s)] :
        s \in Starts}

\* BasicMatrix { inner, row_len } and BasicMatrix::new(row_len)
BasicMatrices ==
    {[kind |-> "basic", row |-> r, col |-> 0, data |-> Iota(r * c, s)] :
        r \in Dims, c \in Dims, s \in Starts}
    \cup {[kind |-> "basic", row |-> r, col |-> 0, data |-> <<>>] : r \in Dims}

\* the values identity() returns
Identities ==
    {Identity(x).ret : x \in {y \in MacroMatrices \cup NonMacroMatrices :
                                 Identity(y).out = "ok"}}

\* every implementor of ArrayMatrix + Index: a right operand of mul()
ArrayMatrices == MacroMatrices \cup NonMacroMatrices \cup Identities

Constructed == ArrayMatrices \cup BasicMatrices

\* the values stored by an indexed assignment
Vals == {0, 9}

\* the scalar operands
Scalars == {-2, 0, 2, ElemMax}

\* the operators each implementation has, for a matrix / a scalar operand
Operators(kind, scalar) ==
    CASE kind = "macro" -> IF scalar THEN {"add", "sub", "mul", "div"} ELSE {"add", "sub"}
      [] kind = "nonmacro" -> IF scalar THEN {"add", "sub", "mul"} ELSE {"add", "sub"}
      [] kind = "basic" -> IF scalar THEN {} ELSE {"add"}

\* the compound assignments each implementation has
Assignments(kind, scalar) ==
    CASE kind = "macro" -> IF scalar THEN {"add", "sub", "mul", "div"} ELSE {"add", "sub"}
      [] kind = "nonmacro" -> IF scalar THEN {"add", "sub", "mul"} ELSE {"add", "sub"}
      [] kind = "basic" -> IF scalar THEN {"add"} ELSE {}

\* the operands the type checker admits for Add / Sub / AddAssign / SubAssign
SameType(x) ==
    CASE x.kind = "macro" ->
            {y \in ArrayMatrices : y.kind = "macro" /\ y.row = x.row /\ y.col = x.col}
      [] x.kind = "nonmacro" -> {y \in ArrayMatrices : y.kind = "nonmacro"}
      [] x.kind = "basic" -> BasicMatrices

----------------------------------------------------------------------------
(* The inputs of the calls *)

\* the coordinates tried: every in-range one and those one past each edge
Coords(x) == (0..Row(x)) \X (0..Column(x))

\* the last cell and the cell one past the first row's end
SeqCoords(x) ==
    {c \in Coords(x) : c = <<Row(x) - 1, Column(x) - 1>> \/ c = <<0, Column(x)>>}

\* the in-range coordinates
Cells(x) == {c \in Coords(x) : InBounds(x, c[1], c[2])}

\* the right operand of a sequence's +, -, +=, -=: same shape, elements 1, 2, ...
SeqOthers(x) ==
    {y \in SameType(x) : Row(y) = Row(x) /\ y.data = Iota(Len(x.data), 1)}

----------------------------------------------------------------------------
(* The state: a matrix m and the record of the last call made on it *)

Init ==
    /\ m \in Constructed
    /\ orig = m
    /\ checks \in BOOLEAN
    /\ calls = 0
    /\ pre = m
    /\ op = "new"
    /\ args = NoArgs
    /\ out = "ok"
    /\ ret = NoMatrix
    /\ val = <<>>
    /\ same = FALSE
    /\ reads = 0
    /\ trail = NoTrail

\* the call `name` with arguments a ended o, leaving the matrix x, having
\* returned the matrix r, the element v or the boolean e
Done(name, a, o, x, r, v, e, rd, t) ==
    /\ op' = name
    /\ args' = a
    /\ out' = o
    /\ m' = x
    /\ ret' = r
    /\ val' = v
    /\ same' = e
    /\ reads' = rd
    /\ trail' = t
    /\ pre' = m
    /\ calls' = calls + 1
    /\ UNCHANGED <<orig, checks>>

\* m[(i, j)]
IndexStep(C) ==
    \E c \in C :
        LET e == IndexGet(m, c[1], c[2])
        IN  Done("index", [NoArgs EXCEPT !.a = c], IF e = <<>> THEN "panic" ELSE "ok",
                 m, NoMatrix, e, FALSE, Len(e), NoTrail)

\* m[(i, j)] = v
IndexMutStep(C, V) ==
    \E c \in C, v \in V :
        LET s == IndexSet(m, c[1], c[2], v)
        IN  Done("index_mut", [NoArgs EXCEPT !.a = c, !.v = v],
                 IF s = <<>> THEN "panic" ELSE "ok",
                 IF s = <<>> THEN m ELSE s[1], NoMatrix, <<>>, FALSE, 0, NoTrail)

\* m.swap(a, b)
SwapStep(P) ==
    \E p \in P :
        LET s == Swap(m, p[1], p[2])
        IN  Done("swap", [NoArgs EXCEPT !.a = p[1], !.b = p[2]], s.out, s.m,
                 NoMatrix, <<>>, FALSE, 0, NoTrail)

\* m.transpose()
TransposeStep ==
    LET t == Transpose(m)
    IN  Done("transpose", NoArgs, t.out, m, t.ret, <<>>, FALSE, 0, NoTrail)

\* m.transpose_mut()
TransposeMutStep ==
    LET t == TransposeMut(m)
    IN  Done("transpose_mut", NoArgs, t.out, t.m, NoMatrix, <<>>, FALSE, 0, t.trail)

\* identity() of m's type
IdentityStep ==
    /\ m.kind \in {"macro", "nonmacro"}
    /\ LET t == Identity(m)
       IN  Done("identity", NoArgs, t.out, m, t.ret, <<>>, FALSE, 0, NoTrail)

\* m == other
EqStep(Y) ==
    \E y \in Y :
        Done("eq", [NoArgs EXCEPT !.other = y], "ok", m, NoMatrix, <<>>, Eq(m, y),
             0, NoTrail)

\* m * other, other a matrix
MulStep(Y) ==
    /\ m.kind \in {"macro", "nonmacro"}
    /\ \E y \in Y :
        LET r == Mul(m, y)
        IN  Done("mul", [NoArgs EXCEPT !.other = y], r.out, m, r.ret, <<>>, FALSE,
                 r.reads, NoTrail)

\* m + other, m - other, other a matrix of m's type
OperatorStep(Y) ==
    \E c \in Operators(m.kind, FALSE), y \in Y :
        LET r == IF m.kind = "basic" THEN BasicAdd(m, y) ELSE Binary(m, c, y.data)
        IN  Done("operator", [NoArgs EXCEPT !.other = y, !.call = c], r.out, m, r.ret,
                 <<>>, FALSE, 2 * r.done, NoTrail)

\* m + s, m - s, m * s, m / s, s a scalar
ScalarOperatorStep(S) ==
    \E c \in Operators(m.kind, TRUE), s \in S :
        LET r == Binary(m, c, Broadcast(s, Len(m.data)))
        IN  Done("operator", [NoArgs EXCEPT !.v = s, !.call = c, !.scalar = TRUE],
                 r.out, m, r.ret, <<>>, FALSE, r.done, NoTrail)

\* m += other, m -= other, other a matrix of m's type
AssignStep(Y) ==
    \E c \in Assignments(m.kind, FALSE), y \in Y :
        LET r == Assign(m, c, y.data, FALSE)
        IN  Done("assign", [NoArgs EXCEPT !.other = y, !.call = c], r.out, r.m,
                 NoMatrix, <<>>, FALSE, 2 * r.done, NoTrail)

\* m += s, m -= s, m *= s, m /= s, s a scalar
ScalarAssignStep(S) ==
    \E c \in Assignments(m.kind, TRUE), s \in S :
        LET r == IF m.kind = "basic" THEN BasicAddAssign(m, s)
                 ELSE Assign(m, c, Broadcast(s, Len(m.data)), TRUE)
        IN  Done("assign", [NoArgs EXCEPT !.v = s, !.call = c, !.scalar = TRUE],
                 r.out, r.m, NoMatrix, <<>>, FALSE, r.done, NoTrail)

----------------------------------------------------------------------------
(* Spec: one call on a constructed matrix, over every input *)

Idle == op = "new"

IndexCall == Idle /\ IndexStep(Coords(m))

IndexMutCall == Idle /\ IndexMutStep(Coords(m), Vals)

SwapCall == Idle /\ SwapStep(Coords(m) \X Coords(m))

TransposeCall == Idle /\ TransposeStep

TransposeMutCall == Idle /\ TransposeMutStep

IdentityCall == Idle /\ IdentityStep

EqCall == Idle /\ EqStep(SameType(m))

MulCall == Idle /\ MulStep(ArrayMatrices)

OperatorCall == Idle /\ OperatorStep(SameType(m))

ScalarOperatorCall == Idle /\ ScalarOperatorStep(Scalars)

AssignCall == Idle /\ AssignStep(SameType(m))

ScalarAssignCall == Idle /\ ScalarAssignStep(Scalars)

Next ==
    \/ IndexCall
    \/ IndexMutCall
    \/ SwapCall
    \/ TransposeCall
    \/ TransposeMutCall
    \/ IdentityCall
    \/ EqCall
    \/ MulCall
    \/ OperatorCall
    \/ ScalarOperatorCall
    \/ AssignCall
    \/ ScalarAssignCall

Spec == Init /\ [][Next]_vars

----------------------------------------------------------------------------
(* SpecSeq: up to MaxCalls calls in a row on one matrix, few inputs each *)

Budget == calls < MaxCalls

SeqIndex == Budget /\ IndexStep(SeqCoords(m))

SeqIndexMut == Budget /\ IndexMutStep(SeqCoords(m), {ElemMin})

SeqSwap == Budget /\ SwapStep({<<0, 0>>} \X SeqCoords(m))

SeqTranspose == Budget /\ TransposeStep

SeqTransposeMut == Budget /\ TransposeMutStep

SeqMul == Budget /\ MulStep({y \in Identities : y.kind = m.kind /\ Row(y) = Row(m)})

SeqOperator == Budget /\ OperatorStep(SeqOthers(m))

SeqScalarOperator == Budget /\ ScalarOperatorStep({-1})

SeqAssign == Budget /\ AssignStep(SeqOthers(m))

SeqScalarAssign == Budget /\ ScalarAssignStep({-1})

SeqNext ==
    \/ SeqIndex
    \/ SeqIndexMut
    \/ SeqSwap
    \/ SeqTranspose
    \/ SeqTransposeMut
    \/ SeqMul
    \/ SeqOperator
    \/ SeqScalarOperator
    \/ SeqAssign
    \/ SeqScalarAssign

SpecSeq == Init /\ [][SeqNext]_vars

----------------------------------------------------------------------------
(* SpecPerm: up to MaxCalls transpose_mut() and in-range swap() calls *)

PermSwap == Budget /\ SwapStep({<<0, 0>>} \X Cells(m))

PermTransposeMut == Budget /\ TransposeMutStep

PermNext ==
    \/ PermSwap
    \/ PermTransposeMut

SpecPerm == Init /\ [][PermNext]_vars

----------------------------------------------------------------------------
(* Properties *)

\* row_len() == column_len()
IsSquare(x) == Row(x) = Column(x)

\* (i, j) lies inside [0, row_len) x [0, column_len) of x
Inside(x, c) == c[1] < Row(x) /\ c[2] < Column(x)

\* the entry (i, j) of x read straight from the storage
Entry(x, i, j) == At(x.data, i * Column(x) + j)

\* x is square with ones on the diagonal and zeros elsewhere
IsIdentity(x) ==
    /\ IsSquare(x)
    /\ Len(x.data) = Row(x) * Column(x)
    /\ \A i \in 0..(Row(x) - 1), j \in 0..(Column(x) - 1) :
          Entry(x, i, j) = IF i = j THEN 1 ELSE 0

\* sum over k = k .. n - 1 of x(i, k) * y(k, j)
RECURSIVE Sigma(_, _, _, _, _, _)
Sigma(x, y, i, j, k, n) ==
    IF k >= n THEN 0 ELSE Entry(x, i, k) * Entry(y, k, j) + Sigma(x, y, i, j, k + 1, n)

\* C1: after transpose_mut() on a square matrix of any implementation the
\* element at (i, j) is the element that was at (j, i) before the call, and
\* the storage length is unchanged.
TransposeMutSquare ==
    (op = "transpose_mut" /\ IsSquare(pre)) =>
        /\ out = "ok"
        /\ Len(m.data) = Len(pre.data)
        /\ Size(m) = Size(pre)
        /\ \A i \in 0..(Row(pre) - 1), j \in 0..(Column(pre) - 1) :
              Entry(m, i, j) = Entry(pre, j, i)

\* a square matrix of two rows or more that transpose_mut() has changed
TransposeMutSquareWitness ==
    /\ op = "transpose_mut"
    /\ IsSquare(pre)
    /\ Row(pre) >= 2
    /\ out = "ok"
    /\ m.data # pre.data

\* C2: transpose() of a matrix of any shape (r, c), of the macro type or a
\* BasicMatrix, completes and returns a matrix of shape (c, r) whose entry
\* (j, i) is the entry (i, j) of the receiver.
TransposeAnyShape ==
    (op = "transpose" /\ pre.kind \in {"macro", "basic"}) =>
        /\ out = "ok"
        /\ Size(ret) = <<Column(pre), Row(pre)>>
        /\ \A i \in 0..(Row(pre) - 1), j \in 0..(Column(pre) - 1) :
              Entry(ret, j, i) = Entry(pre, i, j)

\* C3: whenever A.row_len() = B.column_len(), A * B completes without a
\* fault and every entry (i, j) of the result is the sum over
\* k = 0 .. B.row_len() - 1 of A(i, k) * B(k, j).
MulComputesProduct ==
    (op = "mul" /\ Row(pre) = Column(args.other)) =>
        /\ out = "ok"
        /\ \A i \in 0..(Row(pre) - 1), j \in 0..(Column(pre) - 1) :
              Entry(ret, i, j) = Sigma(pre, args.other, i, j, 0, Row(args.other))

\* C4: A * B with A.row_len() # B.column_len() fails, and it fails before
\* any element of an operand is read or any element of the result computed.
MulRejectsMismatch ==
    (op = "mul" /\ Row(pre) # Column(args.other)) =>
        /\ out = "panic"
        /\ reads = 0
        /\ ret = NoMatrix

\* a multiply whose operands disagree on row_len / column_len although the
\* inner dimensions of the product agree
MulRejectsMismatchWitness ==
    /\ op = "mul"
    /\ Row(pre) # Column(args.other)
    /\ Column(pre) = Row(args.other)
    /\ out = "panic"

\* C5: for a square matrix M and the identity I of the same shape,
\* M * I == M and I * M == M.
MulIdentityLaw ==
    (op = "mul" /\ IsSquare(pre) /\ Size(args.other) = Size(pre)) =>
        /\ IsIdentity(args.other) => (out = "ok" /\ ret.data = pre.data)
        /\ IsIdentity(pre) => (out = "ok" /\ ret.data = args.other.data)

\* M * I with M of two rows or more and not itself the identity
MulIdentityLawWitness ==
    /\ op = "mul"
    /\ IsSquare(pre)
    /\ Row(pre) >= 2
    /\ Size(args.other) = Size(pre)
    /\ IsIdentity(args.other)
    /\ ~IsIdentity(pre)
    /\ out = "ok"
    /\ ret.data = pre.data

\* C6: for every square matrix M, M.transpose().transpose() == M, and
\* transpose_mut() applied twice returns M to its original element sequence.
TransposeInvolution ==
    /\ (op = "transpose" /\ IsSquare(pre)) =>
          /\ out = "ok"
          /\ Transpose(ret).out = "ok"
          /\ Transpose(ret).ret.data = pre.data
    /\ (op = "transpose_mut" /\ IsSquare(pre)) =>
          /\ out = "ok"
          /\ TransposeMut(m).out = "ok"
          /\ TransposeMut(m).m.data = pre.data

\* C7: an indexed read or write at (i, j) with i >= row_len() or
\* j >= column_len() panics: no element is returned and the element
\* sequence of the matrix is what it was before the call.
IndexOutOfRangeRejected ==
    (op \in {"index", "index_mut"} /\ ~Inside(pre, args.a)) =>
        /\ out = "panic"
        /\ val = <<>>
        /\ m = pre

\* an indexed write at (i, column_len()) whose flat offset lies inside the
\* storage
IndexOutOfRangeRejectedWitness ==
    /\ op = "index_mut"
    /\ args.a[1] < Row(pre)
    /\ args.a[2] = Column(pre)
    /\ args.a[1] * Column(pre) + args.a[2] < Len(pre.data)
    /\ out = "panic"

\* C8: swap(a, b) panics whenever either coordinate pair lies outside
\* [0, row_len) x [0, column_len), and then no elements are exchanged.
SwapRejectsOutside ==
    (op = "swap" /\ (~Inside(pre, args.a) \/ ~Inside(pre, args.b))) =>
        /\ out = "panic"
        /\ m = pre

\* C9: a compound assignment leaves the receiver with the element
\* sequence the corresponding non-assigning operator returns.
AssignMatchesOperator ==
    (op = "assign" /\ out = "ok") =>
        LET rhs == IF args.scalar THEN Broadcast(args.v, Len(pre.data))
                   ELSE args.other.data
            r == IF pre.kind = "basic"
                 THEN BasicAdd(pre, [pre EXCEPT !.data = rhs])
                 ELSE Binary(pre, args.call, rhs)
        IN  r.out = "ok" /\ m.data = r.ret.data

\* C10: the elementwise add of two matrices whose row_len or element
\* counts differ is rejected before any element is computed and returns
\* no matrix.
AddRejectsShapeMismatch ==
    (/\ op = "operator"
     /\ args.call = "add"
     /\ ~args.scalar
     /\ (Row(pre) # Row(args.other) \/ Len(pre.data) # Len(args.other.data))) =>
        /\ out = "panic"
        /\ reads = 0
        /\ ret = NoMatrix

\* C11: a mutating call (indexed assignment, swap, transpose_mut, +=, -=,
\* *=, /=) that faults, on an index out of range or on an arithmetic fault
\* of the element type part-way through the element loop, leaves the
\* receiver's element sequence as it was before the call.
FaultLeavesReceiver ==
    (op \in {"index_mut", "swap", "transpose_mut", "assign"} /\ out = "panic") =>
        m.data = pre.data

\* C14: for an in-range (i, j) an indexed read returns the element at flat
\* offset i * column_len() + j and changes nothing; an indexed write of v
\* stores v at that offset and leaves every other element as it was, so a
\* read at (i, j) afterwards returns v.
IndexUsesRowMajorOffset ==
    LET off == args.a[1] * Column(pre) + args.a[2]
    IN  /\ (op = "index" /\ Inside(pre, args.a)) =>
              /\ out = "ok"
              /\ val = <<At(pre.data, off)>>
              /\ m = pre
        /\ (op = "index_mut" /\ Inside(pre, args.a)) =>
              /\ out = "ok"
              /\ Size(m) = Size(pre)
              /\ Len(m.data) = Len(pre.data)
              /\ IndexGet(m, args.a[1], args.a[2]) = <<args.v>>
              /\ \A k \in 0..(Len(pre.data) - 1) :
                    At(m.data, k) = IF k = off THEN args.v ELSE At(pre.data, k)

\* a write below the first row of a matrix that is not square, where
\* i * column_len() + j differs from i * row_len() + j
IndexUsesRowMajorOffsetWitness ==
    /\ op = "index_mut"
    /\ Inside(pre, args.a)
    /\ args.a[1] >= 1
    /\ ~IsSquare(pre)
    /\ out = "ok"
    /\ m.data # pre.data

IdentitySquareOnly ==
    (op = "identity") =>
        IF IsSquare(pre) THEN out = "ok" /\ IsIdentity(ret)
        ELSE out = "panic" /\ ret = NoMatrix

\* C17 as stated: a completed A * B has A's shape, and that is the shape
\* (A.row_len(), B.column_len()) only when A and B are square and of equal
\* shape.
MulShapeCorrectOnlyBothSquare ==
    (op = "mul" /\ out = "ok") =>
        /\ Size(ret) = Size(pre)
        /\ (Size(ret) = <<Row(pre), Column(args.other)>>) =>
              (IsSquare(pre) /\ IsSquare(args.other) /\ Size(args.other) = Size(pre))

\* C17: a completed A * B has A's shape (A.row_len(), A.column_len())
\* whatever the shape of B, and that is the shape (A.row_len(),
\* B.column_len()) exactly when A is square; B need not be.
MulShapeIsLeftOperands ==
    (op = "mul" /\ out = "ok") =>
        /\ Size(ret) = Size(pre)
        /\ Len(ret.data) = Len(pre.data)
        /\ (Size(ret) = <<Row(pre), Column(args.other)>>) <=> IsSquare(pre)

\* a completed product of a square A with a B that is not square
MulShapeIsLeftOperandsWitness ==
    /\ op = "mul"
    /\ out = "ok"
    /\ IsSquare(pre)
    /\ ~IsSquare(args.other)
    /\ Size(ret) = <<Row(pre), Column(args.other)>>

\* C12 as stated: two matrices compare equal if and only if their element
\* sequences are equal in order, two BasicMatrix values of different
\* row_len included.
EqIffSameElements ==
    (op = "eq") => (same <=> pre.data = args.other.data)

\* C12: two matrices of the macro type, or two NonMacroMatrix values,
\* compare equal if and only if their element sequences are equal in order;
\* two BasicMatrix values compare equal if and only if their element
\* sequences are equal in order and their row_len are equal.
EqComparesElementsAndRowLen ==
    (op = "eq") =>
        /\ out = "ok"
        /\ m = pre
        /\ same <=> /\ pre.data = args.other.data
                    /\ pre.kind = "basic" => Row(pre) = Row(args.other)

\* two BasicMatrix values with the same elements and different row_len,
\* compared and found different
EqComparesElementsAndRowLenWitness ==
    /\ op = "eq"
    /\ pre.kind = "basic"
    /\ pre.data # <<>>
    /\ pre.data = args.other.data
    /\ Row(pre) # Row(args.other)
    /\ ~same

\* len(elements) == row_len() * column_len() and size() is the pair of them
WellFormed(x) ==
    /\ Len(x.data) = Row(x) * Column(x)
    /\ Size(x) = <<Row(x), Column(x)>>

\* C13: after any sequence of indexed assignments, swaps, transpose_mut and
\* compound assignments on a constructed matrix, and in every matrix that
\* transpose, add, sub, a scalar operator or multiply returns,
\* len(elements) = row_len() * column_len() and size() = (row_len(),
\* column_len()); the element count and the row count of the matrix are
\* those it was constructed with.
ShapeIsInvariant ==
    /\ WellFormed(m)
    /\ Len(m.data) = Len(orig.data)
    /\ Row(m) = Row(orig)
    /\ ret # NoMatrix => WellFormed(ret)

\* a BasicMatrix that is not square after two calls that changed its
\* elements, the second one a compound assignment
ShapeIsInvariantWitness ==
    /\ calls >= 2
    /\ op = "assign"
    /\ out = "ok"
    /\ m.kind = "basic"
    /\ ~IsSquare(m)
    /\ pre.data # orig.data
    /\ m.data # pre.data

\* the swaps in t that exchanged the offsets a and b
SwapsOf(t, a, b) ==
    {k \in 1..Len(t.pairs) : t.pairs[k] = <<a, b>> \/ t.pairs[k] = <<b, a>>}

\* C18: one transpose_mut() on a square n x n matrix swaps every
\* off-diagonal pair {(r, c), (c, r)} exactly once, n * (n - 1) / 2 swaps in
\* all, and never swaps a diagonal element; after the diagonal position
\* (r, r) with r < n - 1 the next position examined is (r + 1, 0).
TransposeMutSwapsEachPairOnce ==
    (op = "transpose_mut" /\ IsSquare(pre)) =>
        LET n == Row(pre)
        IN  /\ out = "ok"
            /\ 2 * Len(trail.pairs) = n * (n - 1)
            /\ \A r \in 0..(n - 1), c \in 0..(n - 1) :
                  Cardinality(SwapsOf(trail, r * n + c, c * n + r)) =
                      IF r = c THEN 0 ELSE 1
            /\ \A k \in 1..Len(trail.pairs), r \in 0..(n - 1) :
                  /\ trail.pairs[k][1] # r * n + r
                  /\ trail.pairs[k][2] # r * n + r
            /\ \A k \in 1..Len(trail.seen) :
                  LET r == trail.seen[k] \div n
                      c == trail.seen[k] % n
                  IN  (r = c /\ r < n - 1) =>
                          /\ k < Len(trail.seen)
                          /\ trail.seen[k + 1] = (r + 1) * n

\* a square matrix of two rows or more whose transpose_mut() swapped a pair
\* and skipped positions
TransposeMutSwapsEachPairOnceWitness ==
    /\ op = "transpose_mut"
    /\ IsSquare(pre)
    /\ Row(pre) >= 2
    /\ Len(trail.pairs) >= 1
    /\ Len(trail.seen) < Len(pre.data)

\* the number of elements of d equal to v
Count(d, v) == Cardinality({k \in 1..Len(d) : d[k] = v})

\* d and e hold the same elements, each as many times
SameMultiset(d, e) ==
    /\ Len(d) = Len(e)
    /\ \A k \in 1..Len(d) : Count(d, d[k]) = Count(e, d[k])

\* C19: transpose_mut() on a matrix of any shape, square or not, ends
\* without a fault: both offsets of every swap are below the storage
\* length and the skip count is never negative; and after any sequence of
\* transpose_mut() and in-range swap() calls the multiset of the elements is
\* the one the matrix was constructed with.
PermutationsKeepElements ==
    /\ out = "ok"
    /\ SameMultiset(m.data, orig.data)
    /\ \A k \in 1..Len(trail.pairs) :
          /\ trail.pairs[k][1] < Len(pre.data)
          /\ trail.pairs[k][2] < Len(pre.data)

\* a transpose_mut() that moved elements of a matrix of two rows or more
\* that is not square and that an earlier call had already permuted
PermutationsKeepElementsWitness ==
    /\ calls >= 2
    /\ op = "transpose_mut"
    /\ ~IsSquare(pre)
    /\ Row(pre) >= 2
    /\ Len(trail.pairs) >= 1
    /\ pre.data # orig.data
    /\ m.data # pre.data

====
